---- MODULE Spec2Model ----
(***************************************************************************)
(* A model of supernote_pdf (src/src/main.rs): the RATTA_RLE decoder, the  *)
(* container parser, the page compositor with its parallel page workers,   *)
(* the sequential PDF writer and the batch driver.                         *)
(*                                                                         *)
(* Strings whose characters the code inspects (map keys, numeric fields,   *)
(* LAYERSEQ) are sequences of one-character strings, so that starts_with,  *)
(* strip_prefix, split and parse::<u64> are computed, not assumed.         *)
(* A Vec<u8> of pixels is held as the sequence of runs <<color, length>>   *)
(* that were appended to it; VecLen and ByteAt give its length and bytes.  *)
(***************************************************************************)
EXTENDS Integers, Sequences, FiniteSets, TLC

VARIABLES
    \* ---- decode_rle
    compressed_data,   \* the input slice, a sequence of bytes
    width, height,     \* the caller's dimensions
    i,                 \* position in compressed_data
    holder,            \* <<>> (None) or <<color, length_code>>
    decompressed,      \* the output Vec<u8>, as runs
    rle_pc,            \* "idle" | "loop" | "tail" | "resize" | "done"
    rle_result,        \* "none" | "Ok" | "Err"
    last_iter,         \* what the last loop iteration read and appended
    pre_resize,        \* decompressed as it was when the final check began
    \* ---- parse_notebook
    file,              \* the input container: [footer, blocks]
    notebook,          \* what parse_notebook gave: [result, pages, width, height]
    parse_pc,          \* "idle" | "start" | "done"
    \* ---- convert_note_to_pdf
    conv_pc,           \* "idle" | "open" | "render" | "chunks" | "create" |
                       \* "prolog" | "pages" | "xref" | "done"
    conv_result,       \* "none" | "Ok" | "Err" | "Panic"
    page_pc,           \* per page worker: "todo" | "layers" | "Ok" | "Err" | "skipped"
    layer_idx,         \* per page worker: the layer it is at (1-based)
    canvas,            \* per page worker: base_canvas, as [src, applied]
    reads,             \* per page worker: blocks read from its file handle
    last_layer,        \* per page worker: the layer it handled last, and the
                       \* canvas and read count before it did
    finish_order,      \* the page workers in the order they completed
    page_images,       \* the collected canvases
    page_chunks,       \* per page index: the PdfPageChunk, once built
    chunk_order,       \* the chunk closures in the order they completed
    out_file,          \* the output path: "absent" | "partial" | "complete"
    written,           \* what was handed to the writer, in order
    byte_offset,
    xref_offsets,      \* xref_offsets[k] is the Vec's entry k - 1
    next_chunk,        \* the writer's loop index i
    pdf,               \* the table and trailer written: [xref, size, startxref, kids]
    \* ---- process_directory
    jobs,              \* the .note files found, as containers, in walk order
    leaves,            \* the runs <<first, last>> of jobs that one thread
                       \* takes in sequence
    leaf_pos,          \* per leaf: the job it is at
    job_state,         \* per job: "todo" | "Ok" | "Err" | "Panic"
    outputs,           \* per job: its output document, "absent" | "complete"
    reported,          \* per job: "Failed to convert" was printed for it
    batch_pc,          \* "idle" | "scan" | "run" | "done"
    batch_result       \* "none" | "Ok" | "Panic"

rleVars == <<compressed_data, width, height, i, holder, decompressed,
             rle_pc, rle_result, last_iter, pre_resize>>

parseVars == <<file, notebook, parse_pc>>

renderVars == <<page_pc, layer_idx, canvas, reads, last_layer, finish_order>>
writeVars == <<out_file, written, byte_offset, xref_offsets, next_chunk, pdf>>
convVars == <<conv_pc, conv_result, renderVars, page_images, page_chunks,
              chunk_order, writeVars>>

batchVars == <<jobs, leaves, leaf_pos, job_state, outputs, reported, batch_pc,
               batch_result>>

vars == <<rleVars, parseVars, convVars, batchVars>>

\* What an action of one part leaves alone: the other parts.
notRleVars == <<parseVars, convVars, batchVars>>
notParseVars == <<rleVars, convVars, batchVars>>
notConvVars == <<rleVars, batchVars>>
notBatchVars == <<rleVars, parseVars, convVars>>

(***************************************************************************)
(* Bounds of the model.                                                    *)
(***************************************************************************)
MaxLen == 4            \* longest compressed buffer, in bytes
MaxFooterKeys == 3     \* most entries of a footer block
MaxPages == 2          \* most pages of a converted notebook
MaxJobs == 3           \* most .note files of a directory

(***************************************************************************)
(* Bytes and dimensions the decoder is run on: two colours that are also   *)
(* short length codes, the transparency code, short and escape length      *)
(* codes, and the long-run marker.                                         *)
(***************************************************************************)
SampleBytes == {0, 5, 97, 98, 127, 128, 133, 255}
SampleWidths == {0, 1, 3, 150}
SampleHeights == {0, 2, 120}

RECURSIVE SeqsUpTo(_, _)
SeqsUpTo(S, n) ==
    IF n = 0 THEN {<<>>}
    ELSE LET shorter == SeqsUpTo(S, n - 1)
         IN  shorter \cup {Append(s, b) : s \in {t \in shorter : Len(t) = n - 1}, b \in S}

(***************************************************************************)
(* Vec<u8> as runs.                                                        *)
(***************************************************************************)
RECURSIVE VecLen(_)
VecLen(runs) ==
    IF runs = <<>> THEN 0 ELSE runs[1][2] + VecLen(Tail(runs))

\* The byte at 0-based index idx (idx < VecLen(runs)).
RECURSIVE ByteAt(_, _)
ByteAt(runs, idx) ==
    IF idx < runs[1][2] THEN runs[1][1] ELSE ByteAt(Tail(runs), idx - runs[1][2])

\* decompressed.extend(std::iter::repeat(c).take(n))
Extend(runs, c, n) == IF n = 0 THEN runs ELSE Append(runs, <<c, n>>)

\* Vec::truncate(n) for n <= VecLen(runs)
RECURSIVE Truncate(_, _)
Truncate(runs, n) ==
    IF n = 0 \/ runs = <<>> THEN <<>>
    ELSE IF runs[1][2] >= n THEN << <<runs[1][1], n>> >>
    ELSE <<runs[1]>> \o Truncate(Tail(runs), n - runs[1][2])

TRANSPARENT == 98      \* 0x62
LONG_RUN == 16384      \* 0x4000

\* Vec::resize(new_len, value): truncate the excess or pad the shortfall.
ResizeOnlyPads(runs, new_len, value) ==
    IF VecLen(runs) >= new_len THEN runs
    ELSE Extend(runs, value, new_len - VecLen(runs))

Resize(runs, new_len, value) ==
    IF VecLen(runs) >= new_len THEN Truncate(runs, new_len)
    ELSE Extend(runs, value, new_len - VecLen(runs))

(***************************************************************************)
(* decode_rle, lines 207-274.                                              *)
(***************************************************************************)
\* ((prev_length_code & 0x7f) as usize + 1) << 7
HeldLength(p) == ((p % 128) + 1) * 128

CombinedLengthNoCarry(k, p) == 1 + k + ((p % 128) * 128)

\* 1 + length_code as usize + (((prev_length_code & 0x7f) as usize + 1) << 7)
CombinedLength(k, p) == 1 + k + HeldLength(p)

\* expected_len.saturating_sub(decompressed.len())
RemainingLen(expected_len, have) ==
    IF expected_len >= have THEN expected_len - have ELSE 0

TailLengthUnbounded(p, remaining_len) == HeldLength(p)

\* std::cmp::min(((length_code & 0x7f) as usize + 1) << 7, remaining_len)
TailLength(p, remaining_len) ==
    IF HeldLength(p) <= remaining_len THEN HeldLength(p) ELSE remaining_len

SimpleLengthOffByOne(k) == k

\* length_code as usize + 1
SimpleLength(k) == k + 1

ParseIdle ==
    /\ file = [footer |-> [ok |-> FALSE, map |-> <<>>], blocks |-> <<>>]
    /\ notebook = [result |-> "none", pages |-> <<>>, width |-> 0, height |-> 0]
    /\ parse_pc = "idle"

NoPdf == [xref |-> <<>>, size |-> 0, startxref |-> 0, kids |-> <<>>]

ConvIdle ==
    /\ conv_pc = "idle"
    /\ conv_result = "none"
    /\ page_pc = <<>>
    /\ layer_idx = <<>>
    /\ canvas = <<>>
    /\ reads = <<>>
    /\ last_layer = <<>>
    /\ finish_order = <<>>
    /\ page_images = <<>>
    /\ page_chunks = <<>>
    /\ chunk_order = <<>>
    /\ out_file = "absent"
    /\ written = <<>>
    /\ byte_offset = 0
    /\ xref_offsets = <<>>
    /\ next_chunk = 0
    /\ pdf = NoPdf

BatchIdle ==
    /\ jobs = <<>>
    /\ leaves = <<>>
    /\ leaf_pos = <<>>
    /\ job_state = <<>>
    /\ outputs = <<>>
    /\ reported = <<>>
    /\ batch_pc = "idle"
    /\ batch_result = "none"

NoIter == [held |-> <<>>, pair |-> <<>>, emitted |-> <<>>]

RleIdle ==
    /\ compressed_data = <<>>
    /\ width = 0
    /\ height = 0
    /\ i = 0
    /\ holder = <<>>
    /\ decompressed = <<>>
    /\ rle_pc = "idle"
    /\ rle_result = "none"
    /\ last_iter = NoIter
    /\ pre_resize = <<>>

RleInit ==
    /\ compressed_data \in SeqsUpTo(SampleBytes, MaxLen)
    /\ width \in SampleWidths
    /\ height \in SampleHeights
    /\ i = 0
    /\ holder = <<>>
    /\ decompressed = <<>>
    /\ rle_pc = "loop"
    /\ rle_result = "none"
    /\ last_iter = NoIter
    /\ pre_resize = <<>>
    /\ ParseIdle
    /\ ConvIdle
    /\ BatchIdle

\* The while condition fails, or the trailing odd byte breaks the loop.
RleLoopExit ==
    /\ rle_pc = "loop"
    /\ (i >= Len(compressed_data) \/ i + 1 >= Len(compressed_data))
    /\ rle_pc' = "tail"
    /\ UNCHANGED <<compressed_data, width, height, i, holder, decompressed,
                   rle_result, last_iter, pre_resize>>
    /\ UNCHANGED notRleVars

\* One iteration of the while loop on the pair at i, i + 1.
RleLoopIter ==
    /\ rle_pc = "loop"
    /\ i < Len(compressed_data)
    /\ i + 1 < Len(compressed_data)
    /\ LET color_code == compressed_data[i + 1]
           length_code == compressed_data[i + 2]
           held == holder
           afterHeld ==
               IF held # <<>> /\ color_code # held[1]
               THEN Extend(decompressed, held[1], HeldLength(held[2]))
               ELSE decompressed
           stored == held = <<>> /\ length_code # 255 /\ length_code >= 128
           length ==
               IF held # <<>>
               THEN IF color_code = held[1]
                    THEN CombinedLength(length_code, held[2])
                    ELSE SimpleLength(length_code)
               ELSE IF length_code = 255 THEN LONG_RUN
               ELSE SimpleLength(length_code)
           out == IF stored THEN decompressed
                  ELSE Extend(afterHeld, color_code, length)
       IN  /\ i' = i + 2
           /\ holder' = IF stored THEN <<color_code, length_code>> ELSE <<>>
           /\ decompressed' = out
           /\ last_iter' = [held |-> held,
                            pair |-> <<color_code, length_code>>,
                            emitted |-> SubSeq(out, Len(decompressed) + 1, Len(out))]
    /\ UNCHANGED <<compressed_data, width, height, rle_pc, rle_result, pre_resize>>
    /\ UNCHANGED notRleVars

\* After the loop: the final item in the holder, lines 257-264.
RleTail ==
    /\ rle_pc = "tail"
    /\ LET expected_len == width * height
           remaining_len == RemainingLen(expected_len, VecLen(decompressed))
           tail_length ==
               IF holder = <<>> THEN 0 ELSE TailLength(holder[2], remaining_len)
       IN  decompressed' =
               IF holder # <<>> /\ tail_length > 0
               THEN Extend(decompressed, holder[1], tail_length)
               ELSE decompressed
    /\ rle_pc' = "resize"
    /\ UNCHANGED <<compressed_data, width, height, i, holder, rle_result, last_iter,
                   pre_resize>>
    /\ UNCHANGED notRleVars

\* The final sanity check and the return, lines 267-273.
RleResize ==
    /\ rle_pc = "resize"
    /\ LET expected_len == width * height
       IN  decompressed' =
               IF VecLen(decompressed) # expected_len
               THEN Resize(decompressed, expected_len, TRANSPARENT)
               ELSE decompressed
    /\ pre_resize' = decompressed
    /\ rle_pc' = "done"
    /\ rle_result' = "Ok"
    /\ UNCHANGED <<compressed_data, width, height, i, holder, last_iter>>
    /\ UNCHANGED notRleVars

RleNext == RleLoopIter \/ RleLoopExit \/ RleTail \/ RleResize

SpecRle == RleInit /\ [][RleNext]_vars

(***************************************************************************)
(* Strings, as sequences of characters.                                    *)
(***************************************************************************)
S_PAGE == <<"P", "A", "G", "E">>
S_TITLE == <<"T", "I", "T", "L", "E">>
S_FILE_FEATURE == <<"F", "I", "L", "E", "_", "F", "E", "A", "T", "U", "R", "E">>
S_APPLY_EQUIPMENT == <<"A", "P", "P", "L", "Y", "_", "E", "Q", "U", "I", "P", "M", "E", "N", "T">>
S_LAYERSEQ == <<"L", "A", "Y", "E", "R", "S", "E", "Q">>
S_LAYERPROTOCOL == <<"L", "A", "Y", "E", "R", "P", "R", "O", "T", "O", "C", "O", "L">>
S_LAYERBITMAP == <<"L", "A", "Y", "E", "R", "B", "I", "T", "M", "A", "P">>
S_BGLAYER == <<"B", "G", "L", "A", "Y", "E", "R">>
S_MAINLAYER == <<"M", "A", "I", "N", "L", "A", "Y", "E", "R">>
S_LAYER1 == <<"L", "A", "Y", "E", "R", "1">>
S_LAYER2 == <<"L", "A", "Y", "E", "R", "2">>
S_LAYER3 == <<"L", "A", "Y", "E", "R", "3">>

\* str::starts_with
StartsWith(s, prefix) ==
    Len(s) >= Len(prefix) /\ SubSeq(s, 1, Len(prefix)) = prefix

\* str::strip_prefix(prefix).unwrap(), for s that starts with prefix
StripPrefix(s, prefix) == SubSeq(s, Len(prefix) + 1, Len(s))

\* str::split(sep): the pieces between the separators, the empty ones kept
RECURSIVE Split(_, _, _)
Split(s, sep, piece) ==
    IF s = <<>> THEN <<piece>>
    ELSE IF Head(s) = sep THEN <<piece>> \o Split(Tail(s), sep, <<>>)
    ELSE Split(Tail(s), sep, Append(piece, Head(s)))

DigitValue(c) ==
    CASE c = "0" -> 0 [] c = "1" -> 1 [] c = "2" -> 2 [] c = "3" -> 3
      [] c = "4" -> 4 [] c = "5" -> 5 [] c = "6" -> 6 [] c = "7" -> 7
      [] c = "8" -> 8 [] c = "9" -> 9 [] OTHER -> -1

\* The digits of a numeric field: str::parse::<u64> accepts one leading '+'.
UnsignedDigits(s) == IF s # <<>> /\ Head(s) = "+" THEN Tail(s) ELSE s

\* str::parse::<u64>() is Ok: digits only, at least one (the strings of the
\* model are too short to overflow 64 bits).
ParsesAsU64(s) ==
    /\ UnsignedDigits(s) # <<>>
    /\ \A n \in 1..Len(UnsignedDigits(s)) : DigitValue(UnsignedDigits(s)[n]) >= 0

RECURSIVE DecimalValue(_, _)
DecimalValue(digits, acc) ==
    IF digits = <<>> THEN acc
    ELSE DecimalValue(Tail(digits), acc * 10 + DigitValue(Head(digits)))

\* The value of str::parse::<u64>() when it is Ok.
ParseU64(s) == DecimalValue(UnsignedDigits(s), 0)

(***************************************************************************)
(* The container: metadata blocks by address.  A block is [ok, map]: ok is *)
(* FALSE when reading it fails (seek or read_exact past the end, invalid   *)
(* UTF-8), map is the HashMap parse_metadata_block collects.               *)
(***************************************************************************)
EmptyMap == <<>>
BadBlock == [ok |-> FALSE, map |-> EmptyMap]
Block(m) == [ok |-> TRUE, map |-> m]

\* parse_metadata_block, lines 91-122: address 0 is the empty map.
parse_metadata_block(f, address) ==
    IF address = 0 THEN Block(EmptyMap)
    ELSE IF address \in DOMAIN f.blocks THEN f.blocks[address]
    ELSE BadBlock

A5X_WIDTH == 1404
A5X_HEIGHT == 1872
A5X2_WIDTH == 1920
A5X2_HEIGHT == 2560

\* detect_device_dimensions, lines 125-139: [ok, width, height]
detect_device_dimensions(f, footer_map) ==
    LET standard == [ok |-> TRUE, width |-> A5X_WIDTH, height |-> A5X_HEIGHT]
    IN  IF S_FILE_FEATURE \notin DOMAIN footer_map THEN standard
        ELSE IF ~ParsesAsU64(footer_map[S_FILE_FEATURE]) THEN standard
        ELSE LET header == parse_metadata_block(f, ParseU64(footer_map[S_FILE_FEATURE]))
             IN  IF ~header.ok THEN [ok |-> FALSE, width |-> 0, height |-> 0]
                 ELSE IF S_APPLY_EQUIPMENT \notin DOMAIN header.map THEN standard
                 ELSE IF header.map[S_APPLY_EQUIPMENT] = "N5"
                 THEN [ok |-> TRUE, width |-> A5X2_WIDTH, height |-> A5X2_HEIGHT]
                 ELSE standard

\* The orders in which HashMap::iter may yield the keys of a map.
IterOrders(m) ==
    {o \in [1..Cardinality(DOMAIN m) -> DOMAIN m] :
        \A a, b \in 1..Cardinality(DOMAIN m) : a # b => o[a] # o[b]}

\* The key the sort compares, line 159.
PageNumber(k) == ParseU64(StripPrefix(k, S_PAGE))

\* Vec::sort_by_key is stable: an entry goes after the entries whose key is
\* not larger.
RECURSIVE InsertByPageNumber(_, _)
InsertByPageNumber(sorted, k) ==
    IF sorted = <<>> THEN <<k>>
    ELSE IF PageNumber(k) < PageNumber(Head(sorted)) THEN <<k>> \o sorted
    ELSE <<Head(sorted)>> \o InsertByPageNumber(Tail(sorted), k)

RECURSIVE SortedByPageNumber(_)
SortedByPageNumber(keys) ==
    IF keys = <<>> THEN <<>>
    ELSE InsertByPageNumber(SortedByPageNumber(SubSeq(keys, 1, Len(keys) - 1)),
                            keys[Len(keys)])

\* The closure of sorted_by_key runs only when the sort compares two entries:
\* with fewer than two there is nothing to compare, and unwrap() is not reached.
SortPanics(keys) ==
    /\ Len(keys) >= 2
    /\ \E n \in 1..Len(keys) : ~ParsesAsU64(StripPrefix(keys[n], S_PAGE))

DefaultLayerOrder == <<S_BGLAYER, S_MAINLAYER, S_LAYER1, S_LAYER2, S_LAYER3>>

\* Lines 169-181.
LayerOrder(page_map) ==
    IF S_LAYERSEQ \in DOMAIN page_map
    THEN Split(page_map[S_LAYERSEQ], ",", <<>>)
    ELSE DefaultLayerOrder

\* The layer loop, lines 183-194: [ok, layers]
RECURSIVE ParseLayers(_, _, _, _)
ParseLayers(f, page_map, layer_order, layers) ==
    IF layer_order = <<>> THEN [ok |-> TRUE, layers |-> layers]
    ELSE LET layer_key == Head(layer_order)
         IN  IF layer_key \notin DOMAIN page_map
             THEN ParseLayers(f, page_map, Tail(layer_order), layers)
             ELSE IF ~ParsesAsU64(page_map[layer_key])
             THEN [ok |-> FALSE, layers |-> <<>>]
             ELSE LET data == parse_metadata_block(f, ParseU64(page_map[layer_key]))
                  IN  IF ~data.ok THEN [ok |-> FALSE, layers |-> <<>>]
                      ELSE ParseLayers(f, page_map, Tail(layer_order),
                             Append(layers,
                               [key |-> layer_key,
                                protocol |->
                                    IF S_LAYERPROTOCOL \in DOMAIN data.map
                                    THEN data.map[S_LAYERPROTOCOL] ELSE "",
                                bitmap_address |->
                                    IF /\ S_LAYERBITMAP \in DOMAIN data.map
                                       /\ ParsesAsU64(data.map[S_LAYERBITMAP])
                                    THEN ParseU64(data.map[S_LAYERBITMAP]) ELSE 0]))

\* The page loop, lines 166-196: [ok, pages]
RECURSIVE ParsePages(_, _, _)
ParsePages(f, page_addrs, pages) ==
    IF page_addrs = <<>> THEN [ok |-> TRUE, pages |-> pages]
    ELSE LET page == parse_metadata_block(f, Head(page_addrs))
         IN  IF ~page.ok THEN [ok |-> FALSE, pages |-> <<>>]
             ELSE LET got == ParseLayers(f, page.map, LayerOrder(page.map), <<>>)
                  IN  IF ~got.ok THEN [ok |-> FALSE, pages |-> <<>>]
                      ELSE ParsePages(f, Tail(page_addrs),
                             Append(pages, [addr |-> Head(page_addrs),
                                            layers |-> got.layers]))

NoNotebook(outcome) ==
    [result |-> outcome, pages |-> <<>>, width |-> 0, height |-> 0]

\* Lines 155-159: the entries whose key starts with "PAGE", in iteration
\* order, then sorted.
PageKeys(order) == SelectSeq(order, LAMBDA k : StartsWith(k, S_PAGE))

\* parse_notebook, lines 141-204, with the footer's keys iterated in `order`:
\* result is "Ok" (a Notebook), "Err" (an error value) or "Panic" (unwrap()
\* on an Err at line 159).
parse_notebook(f, order) ==
    IF ~f.footer.ok THEN NoNotebook("Err")
    ELSE LET footer_map == f.footer.map
             dims == detect_device_dimensions(f, footer_map)
             keys == PageKeys(order)
         IN  IF ~dims.ok THEN NoNotebook("Err")
             ELSE IF SortPanics(keys) THEN NoNotebook("Panic")
             ELSE LET sorted == SortedByPageNumber(keys)
                  IN  IF \E n \in 1..Len(sorted) : ~ParsesAsU64(footer_map[sorted[n]])
                      THEN NoNotebook("Err")
                      ELSE LET page_addrs ==
                                   [n \in 1..Len(sorted) |-> ParseU64(footer_map[sorted[n]])]
                               got == ParsePages(f, page_addrs, <<>>)
                           IN  IF ~got.ok THEN NoNotebook("Err")
                               ELSE [result |-> "Ok", pages |-> got.pages,
                                     width |-> dims.width, height |-> dims.height]

(***************************************************************************)
(* The containers parse_notebook is run on.  A footer holds at most        *)
(* MaxFooterKeys of the candidate entries, each with its own address or a  *)
(* value that is no number; the page block at 20, the layer block at 50    *)
(* and the FILE_FEATURE entry with its header block vary.                  *)
(***************************************************************************)
S_PAGE1 == S_PAGE \o <<"1">>
S_PAGE2 == S_PAGE \o <<"2">>
S_PAGE10 == S_PAGE \o <<"1", "0">>
S_PAGEX == S_PAGE \o <<"X">>

CandidateKeys == {S_PAGE1, S_PAGE2, S_PAGE10, S_PAGEX, S_TITLE}

OwnAddress(k) ==
    CASE k = S_PAGE1 -> <<"2", "0">>
      [] k = S_PAGE2 -> <<"3", "0">>
      [] k = S_PAGE10 -> <<"4", "0">>
      [] k = S_PAGEX -> <<"3", "0">>
      [] OTHER -> <<"2", "0">>

NotANumber == <<"4", "x">>

FooterValues == {<<"2", "0">>, <<"3", "0">>, <<"4", "0">>, NotANumber}

FooterMaps ==
    UNION {{m \in [ks -> FooterValues] :
               \A k \in ks : m[k] \in {OwnAddress(k), NotANumber}} :
           ks \in {s \in SUBSET CandidateKeys : Cardinality(s) <= MaxFooterKeys}}

\* The FILE_FEATURE entry and the header block at 70 it points to.
FeatureChoices == {"absent", "not_a_number", "N5", "other", "no_equipment", "unreadable"}

FeatureEntry(choice) ==
    CASE choice = "absent" -> EmptyMap
      [] choice = "not_a_number" -> (S_FILE_FEATURE :> NotANumber)
      [] OTHER -> (S_FILE_FEATURE :> <<"7", "0">>)

HeaderBlock(choice) ==
    CASE choice = "N5" -> Block(S_APPLY_EQUIPMENT :> "N5")
      [] choice = "other" -> Block(S_APPLY_EQUIPMENT :> "A5X")
      [] choice = "no_equipment" -> Block(EmptyMap)
      [] OTHER -> BadBlock

PageBlockChoices ==
    { Block(S_MAINLAYER :> <<"5", "0">> @@ S_BGLAYER :> <<"6", "0">>),
      Block(S_LAYERSEQ :> (S_MAINLAYER \o <<",">> \o S_BGLAYER)
            @@ S_MAINLAYER :> <<"5", "0">> @@ S_BGLAYER :> <<"6", "0">>),
      Block(S_MAINLAYER :> NotANumber),
      Block(S_LAYERSEQ :> S_MAINLAYER
            @@ S_MAINLAYER :> <<"5", "0">> @@ S_BGLAYER :> NotANumber),
      Block(S_MAINLAYER :> <<"0">>),
      BadBlock }

LayerBlockChoices ==
    { Block(S_LAYERPROTOCOL :> "RATTA_RLE" @@ S_LAYERBITMAP :> <<"8", "0">>),
      Block(S_LAYERPROTOCOL :> "PNG" @@ S_LAYERBITMAP :> <<"8", "0">>),
      Block(S_LAYERPROTOCOL :> "SPECIAL" @@ S_LAYERBITMAP :> <<"8", "0">>),
      Block(S_LAYERPROTOCOL :> "RATTA_RLE" @@ S_LAYERBITMAP :> NotANumber),
      Block(S_LAYERBITMAP :> <<"8", "0">>),
      BadBlock }

PlainPageBlock == Block(S_MAINLAYER :> <<"6", "0">>)
PlainLayerBlock == Block(S_LAYERPROTOCOL :> "PNG" @@ S_LAYERBITMAP :> <<"9", "0">>)

Container(footer_map, feature, page20, layer50) ==
    [footer |-> Block(footer_map @@ FeatureEntry(feature)),
     blocks |-> (20 :> page20 @@ 30 :> PlainPageBlock @@ 40 :> PlainPageBlock
                 @@ 50 :> layer50 @@ 60 :> PlainLayerBlock
                 @@ 70 :> HeaderBlock(feature))]

UnreadableContainer == [footer |-> BadBlock, blocks |-> <<>>]

ParseContainers ==
    {Container(m, ft, pb, lb) :
        m \in FooterMaps, ft \in FeatureChoices,
        pb \in PageBlockChoices, lb \in LayerBlockChoices}
    \cup {UnreadableContainer}

ParseInit ==
    /\ file \in ParseContainers
    /\ notebook = NoNotebook("none")
    /\ parse_pc = "start"
    /\ RleIdle
    /\ ConvIdle
    /\ BatchIdle

\* parse_notebook(&mut file), whatever order the footer HashMap iterates in.
ParseCall ==
    /\ parse_pc = "start"
    /\ \E order \in IterOrders(file.footer.map) :
           notebook' = parse_notebook(file, order)
    /\ parse_pc' = "done"
    /\ UNCHANGED file
    /\ UNCHANGED notParseVars

ParseNext == ParseCall

SpecParse == ParseInit /\ [][ParseNext]_vars

(***************************************************************************)
(* convert_note_to_pdf, lines 300-467.  A canvas is [src, applied]: the    *)
(* index of the page the closure was called on, and the layers overlaid on *)
(* the white base, in order; the pixels themselves are not modelled.       *)
(***************************************************************************)
DigitChar(d) ==
    CASE d = 0 -> "0" [] d = 1 -> "1" [] d = 2 -> "2" [] d = 3 -> "3"
      [] d = 4 -> "4" [] d = 5 -> "5" [] d = 6 -> "6" [] d = 7 -> "7"
      [] d = 8 -> "8" [] OTHER -> "9"

\* format!("{}", n)
RECURSIVE DecimalString(_)
DecimalString(n) ==
    IF n < 10 THEN <<DigitChar(n)>>
    ELSE Append(DecimalString(n \div 10), DigitChar(n % 10))

DecLen(n) == Len(DecimalString(n))

\* format!("{:010}", n): zero-padded to ten characters, longer if n needs it
RECURSIVE ZeroPadded(_, _)
ZeroPadded(digits, n) ==
    IF Len(digits) >= n THEN digits ELSE ZeroPadded(<<"0">> \o digits, n)

XREF_DIGITS == 10

XrefRecord(offset) == ZeroPadded(DecimalString(offset), XREF_DIGITS)

\* The branch the layer loop takes, lines 319-347.
LayerActionReadsAbsent(layer) ==
    IF layer.protocol = "RATTA_RLE" THEN "rle"
    ELSE IF layer.protocol = "PNG" THEN "png"
    ELSE "skip"

LayerAction(layer) ==
    IF layer.bitmap_address = 0 THEN "skip"
    ELSE IF layer.protocol = "RATTA_RLE" THEN "rle"
    ELSE IF layer.protocol = "PNG" THEN "png"
    ELSE "skip"

\* imageops::overlay(&mut base_canvas, &layer_image, 0, 0)
Overlay(cv, layer) ==
    [cv EXCEPT !.applied = Append(@, [key |-> layer.key, protocol |-> layer.protocol,
                                      bitmap_address |-> layer.bitmap_address])]

\* Line 316: an opaque white canvas, for the page at index p.
WhiteCanvas(p) == [src |-> p, applied |-> <<>>]

NoLayer == [idx |-> 0, canvas_before |-> WhiteCanvas(0), reads_before |-> 0]

Pages == notebook.pages
NumPages == Len(notebook.pages)

\* Lines 302-308: open the input and parse it; the page closures are ready.
ConvOpenParse ==
    /\ conv_pc = "open"
    /\ \E opened \in BOOLEAN :
         IF ~opened
         THEN /\ conv_pc' = "done"
              /\ conv_result' = "Err"
              /\ UNCHANGED <<notebook, parse_pc, renderVars>>
         ELSE \E order \in IterOrders(file.footer.map) :
                LET nb == parse_notebook(file, order)
                    n == Len(nb.pages)
                IN  /\ notebook' = nb
                    /\ parse_pc' = "done"
                    /\ IF nb.result = "Ok"
                       THEN /\ conv_pc' = "render"
                            /\ conv_result' = "none"
                       ELSE /\ conv_pc' = "done"
                            /\ conv_result' = nb.result
                    /\ page_pc' = [p \in 1..n |-> "todo"]
                    /\ layer_idx' = [p \in 1..n |-> 1]
                    /\ canvas' = [p \in 1..n |-> WhiteCanvas(p)]
                    /\ reads' = [p \in 1..n |-> 0]
                    /\ last_layer' = [p \in 1..n |-> NoLayer]
                    /\ finish_order' = <<>>
    /\ UNCHANGED <<file, page_images, page_chunks, chunk_order, writeVars>>
    /\ UNCHANGED notConvVars

\* Lines 314-316: the closure of page p opens its own handle.
PageOpen(p) ==
    /\ conv_pc = "render"
    /\ page_pc[p] = "todo"
    /\ \E opened \in BOOLEAN :
         page_pc' = [page_pc EXCEPT ![p] = IF opened THEN "layers" ELSE "Err"]
    /\ UNCHANGED <<conv_pc, conv_result, layer_idx, canvas, reads, last_layer,
                   finish_order, page_images, page_chunks, chunk_order, writeVars>>
    /\ UNCHANGED <<parseVars, notConvVars>>

\* One iteration of the layer loop of page p, lines 318-348.
RenderLayer(p) ==
    /\ conv_pc = "render"
    /\ page_pc[p] = "layers"
    /\ layer_idx[p] <= Len(Pages[p].layers)
    /\ LET layer == Pages[p].layers[layer_idx[p]]
           action == LayerAction(layer)
       IN  /\ last_layer' = [last_layer EXCEPT ![p] =
                   [idx |-> layer_idx[p], canvas_before |-> canvas[p],
                    reads_before |-> reads[p]]]
           /\ layer_idx' = [layer_idx EXCEPT ![p] = @ + 1]
           /\ \/ /\ action = "skip"
                 /\ UNCHANGED <<canvas, reads, page_pc>>
              \/ /\ action \in {"rle", "png"}
                 \* seek and read_exact give the block, and it decodes
                 /\ reads' = [reads EXCEPT ![p] = @ + 1]
                 /\ canvas' = [canvas EXCEPT ![p] = Overlay(@, layer)]
                 /\ UNCHANGED page_pc
              \/ /\ action \in {"rle", "png"}
                 \* seek or read_exact fails
                 /\ reads' = [reads EXCEPT ![p] = @ + 1]
                 /\ page_pc' = [page_pc EXCEPT ![p] = "Err"]
                 /\ UNCHANGED canvas
              \/ /\ action = "png"
                 \* image::load_from_memory fails
                 /\ reads' = [reads EXCEPT ![p] = @ + 1]
                 /\ page_pc' = [page_pc EXCEPT ![p] = "Err"]
                 /\ UNCHANGED canvas
    /\ UNCHANGED <<conv_pc, conv_result, finish_order, page_images, page_chunks,
                   chunk_order, writeVars>>
    /\ UNCHANGED <<parseVars, notConvVars>>

\* Line 350: the closure of page p returns its canvas.
PageFinish(p) ==
    /\ conv_pc = "render"
    /\ page_pc[p] = "layers"
    /\ layer_idx[p] > Len(Pages[p].layers)
    /\ page_pc' = [page_pc EXCEPT ![p] = "Ok"]
    /\ finish_order' = Append(finish_order, p)
    /\ UNCHANGED <<conv_pc, conv_result, layer_idx, canvas, reads, last_layer,
                   page_images, page_chunks, chunk_order, writeVars>>
    /\ UNCHANGED <<parseVars, notConvVars>>

\* Collecting into a Result stops handing out pages once a closure has
\* returned Err.
PageSkip(p) ==
    /\ conv_pc = "render"
    /\ page_pc[p] = "todo"
    /\ \E q \in 1..NumPages : page_pc[q] = "Err"
    /\ page_pc' = [page_pc EXCEPT ![p] = "skipped"]
    /\ UNCHANGED <<conv_pc, conv_result, layer_idx, canvas, reads, last_layer,
                   finish_order, page_images, page_chunks, chunk_order, writeVars>>
    /\ UNCHANGED <<parseVars, notConvVars>>

NoObject == [id |-> 0, len |-> 0, src |-> 0]
NoChunk == [page_object |-> NoObject, contents_object |-> NoObject,
            image_object |-> NoObject]

\* The indices whose chunk closure has returned.
ChunksBuilt == {chunk_order[k] : k \in 1..Len(chunk_order)}

CollectedInCompletionOrder(results, completed) ==
    [n \in 1..Len(completed) |-> results[completed[n]]]

\* An indexed parallel iterator collects into a Vec by position, whatever
\* order the closures completed in.
Collected(results, completed) == [n \in 1..Len(results) |-> results[n]]

\* Line 352: collect::<Result<Vec<_>>>()?
CollectPages ==
    /\ conv_pc = "render"
    /\ \A p \in 1..NumPages : page_pc[p] \in {"Ok", "Err", "skipped"}
    /\ IF \E p \in 1..NumPages : page_pc[p] # "Ok"
       THEN /\ conv_pc' = "done"
            /\ conv_result' = "Err"
            /\ UNCHANGED <<page_images, page_chunks>>
       ELSE /\ conv_pc' = "chunks"
            /\ page_images' = Collected(canvas, finish_order)
            /\ page_chunks' = [n \in 1..NumPages |-> NoChunk]
            /\ UNCHANGED conv_result
    /\ UNCHANGED <<renderVars, chunk_order, writeVars>>
    /\ UNCHANGED <<parseVars, notConvVars>>

PDF_HEADER_LEN == 15
CATALOG_LEN == 49
PAGES_ROOT_FIXED_LEN == 53
PAGE_REF_FIXED_LEN == 4
PAGE_OBJECT_FIXED_LEN == 139
CONTENTS_LEN == 31
CONTENTS_OBJECT_FIXED_LEN == 47
IMAGE_HEADER_FIXED_LEN == 162
IMAGE_FOOTER_LEN == 18

\* The lengths ZlibEncoder may give the pixels of a canvas.
SampleCompressedLens == {9, 1000}

\* Lines 359-361, for the 0-based index i of enumerate().
PageObjId(idx) == (idx * 3) + 3
ContentsObjId(idx) == (idx * 3) + 4
ImageObjId(idx) == (idx * 3) + 5

\* Lines 357-405: the chunk of the canvas at 0-based index i.  An object is
\* [id, len, src]: the id its bytes start with, their number, and the page
\* its canvas came from.
PdfPageChunk(idx, cv, compressed_len) ==
    [page_object |->
        [id |-> PageObjId(idx), contents |-> ContentsObjId(idx),
         image |-> ImageObjId(idx), src |-> cv.src,
         len |-> PAGE_OBJECT_FIXED_LEN + DecLen(PageObjId(idx))
                 + DecLen(ContentsObjId(idx)) + DecLen(ImageObjId(idx))],
     contents_object |->
        [id |-> ContentsObjId(idx), src |-> cv.src,
         len |-> CONTENTS_OBJECT_FIXED_LEN + DecLen(ContentsObjId(idx))
                 + DecLen(CONTENTS_LEN) + CONTENTS_LEN],
     image_object |->
        [id |-> ImageObjId(idx), src |-> cv.src,
         len |-> IMAGE_HEADER_FIXED_LEN + DecLen(ImageObjId(idx))
                 + DecLen(notebook.width) + DecLen(notebook.height)
                 + DecLen(compressed_len) + compressed_len + IMAGE_FOOTER_LEN]]

\* The closure of lines 357-405 on the canvas at index n - 1.
BuildChunk(n) ==
    /\ conv_pc = "chunks"
    /\ n \notin ChunksBuilt
    /\ \E compressed_len \in SampleCompressedLens :
         page_chunks' = [page_chunks EXCEPT ![n] =
                            PdfPageChunk(n - 1, page_images[n], compressed_len)]
    /\ chunk_order' = Append(chunk_order, n)
    /\ UNCHANGED <<conv_pc, conv_result, renderVars, page_images, writeVars>>
    /\ UNCHANGED <<parseVars, notConvVars>>

Segment(kind, id, len, src) == [kind |-> kind, id |-> id, len |-> len, src |-> src]

\* A write or the flush failed: the function returns Err; the file created
\* at line 409 stays where it is.
WriteFails ==
    /\ conv_pc' = "done"
    /\ conv_result' = "Err"
    /\ UNCHANGED <<out_file, written, byte_offset, xref_offsets, next_chunk, pdf>>

\* Lines 409-412, once every chunk is built.
CreateOutput ==
    /\ conv_pc = "chunks"
    /\ \A n \in 1..NumPages : n \in ChunksBuilt
    /\ \/ /\ out_file' = "partial"
          /\ conv_pc' = "prolog"
          /\ byte_offset' = 0
          /\ xref_offsets' = [k \in 1..(NumPages * 3 + 2) |-> 0]
          /\ UNCHANGED <<conv_result, written, next_chunk, pdf>>
       \/ \* File::create fails
          WriteFails
    /\ UNCHANGED <<renderVars, page_images, page_chunks, chunk_order>>
    /\ UNCHANGED <<parseVars, notConvVars>>

RECURSIVE PageRefsLen(_)
PageRefsLen(n) ==
    IF n = 0 THEN 0
    ELSE PageRefsLen(n - 1) + DecLen(PageObjId(n - 1)) + PAGE_REF_FIXED_LEN
         + (IF n > 1 THEN 1 ELSE 0)

\* Lines 414-430: the header, the catalog and the page tree.
WriteProlog ==
    /\ conv_pc = "prolog"
    /\ \/ LET pages_root_len ==
                  PAGES_ROOT_FIXED_LEN + PageRefsLen(NumPages) + DecLen(NumPages)
              at_catalog == byte_offset + PDF_HEADER_LEN
              at_pages_root == at_catalog + CATALOG_LEN
          IN  /\ written' = written \o
                    << Segment("header", 0, PDF_HEADER_LEN, 0),
                       Segment("object", 1, CATALOG_LEN, 0),
                       Segment("object", 2, pages_root_len, 0) >>
              /\ xref_offsets' = [xref_offsets EXCEPT ![1] = at_catalog,
                                                      ![2] = at_pages_root]
              /\ byte_offset' = at_pages_root + pages_root_len
              /\ pdf' = [pdf EXCEPT !.kids = [n \in 1..NumPages |-> PageObjId(n - 1)]]
              /\ next_chunk' = 0
              /\ conv_pc' = "pages"
              /\ UNCHANGED <<conv_result, out_file>>
       \/ WriteFails
    /\ UNCHANGED <<renderVars, page_images, page_chunks, chunk_order>>
    /\ UNCHANGED <<parseVars, notConvVars>>

XrefIndexOffByOne(idx) == (idx * 3) + 3

\* Line 434: page_obj_id_idx, the 0-based index into xref_offsets.
XrefIndex(idx) == (idx * 3) + 2

\* One iteration of the loop of lines 433-447.
WriteChunk ==
    /\ conv_pc = "pages"
    /\ next_chunk < Len(page_chunks)
    /\ \/ LET chunk == page_chunks[next_chunk + 1]
              page_obj_id_idx == XrefIndex(next_chunk)
              at_page == byte_offset
              at_contents == at_page + chunk.page_object.len
              at_image == at_contents + chunk.contents_object.len
          IN  /\ xref_offsets' = [xref_offsets EXCEPT
                                     ![page_obj_id_idx + 1] = at_page,
                                     ![page_obj_id_idx + 2] = at_contents,
                                     ![page_obj_id_idx + 3] = at_image]
              /\ written' = written \o
                    << Segment("object", chunk.page_object.id,
                               chunk.page_object.len, chunk.page_object.src),
                       Segment("object", chunk.contents_object.id,
                               chunk.contents_object.len, chunk.contents_object.src),
                       Segment("object", chunk.image_object.id,
                               chunk.image_object.len, chunk.image_object.src) >>
              /\ byte_offset' = at_image + chunk.image_object.len
              /\ next_chunk' = next_chunk + 1
              /\ UNCHANGED <<conv_pc, conv_result, out_file, pdf>>
       \/ WriteFails
    /\ UNCHANGED <<renderVars, page_images, page_chunks, chunk_order>>
    /\ UNCHANGED <<parseVars, notConvVars>>

XREF_KEYWORD_LEN == 5
XREF_RECORD_TAIL_LEN == 10
TRAILER_FIXED_LEN == 50

\* Lines 450-466: the cross-reference table, the trailer and the flush.
WriteXref ==
    /\ conv_pc = "pages"
    /\ next_chunk >= Len(page_chunks)
    /\ \/ LET xref_start_offset == byte_offset
              size == Len(xref_offsets) + 1
              records == [k \in 1..Len(xref_offsets) |-> XrefRecord(xref_offsets[k])]
              table_len ==
                  XREF_KEYWORD_LEN + 3 + DecLen(size)
                  + (XREF_DIGITS + XREF_RECORD_TAIL_LEN) * size
          IN  /\ pdf' = [pdf EXCEPT !.xref = records, !.size = size,
                                    !.startxref = xref_start_offset]
              /\ written' = written \o
                    << Segment("xref", 0, table_len, 0),
                       Segment("trailer", 0,
                               TRAILER_FIXED_LEN + DecLen(size)
                               + DecLen(xref_start_offset), 0) >>
              /\ out_file' = "complete"
              /\ conv_pc' = "done"
              /\ conv_result' = "Ok"
              /\ UNCHANGED <<byte_offset, xref_offsets, next_chunk>>
       \/ WriteFails
    /\ UNCHANGED <<renderVars, page_images, page_chunks, chunk_order>>
    /\ UNCHANGED <<parseVars, notConvVars>>

(***************************************************************************)
(* The containers convert_note_to_pdf is run on: up to MaxPages pages      *)
(* PAGE1, PAGE2, ... at 21, 22, ..., each with one of the page blocks      *)
(* below over the layer blocks at 50..53; and three that do not parse.     *)
(***************************************************************************)
PageKey(n) == S_PAGE \o DecimalString(n)

ConvLayerBlocks ==
    50 :> Block(S_LAYERPROTOCOL :> "RATTA_RLE" @@ S_LAYERBITMAP :> <<"8", "0">>)
    @@ 51 :> Block(S_LAYERPROTOCOL :> "PNG" @@ S_LAYERBITMAP :> <<"8", "1">>)
    @@ 52 :> Block(S_LAYERPROTOCOL :> "SPECIAL" @@ S_LAYERBITMAP :> <<"8", "2">>)
    @@ 53 :> Block(S_LAYERPROTOCOL :> "RATTA_RLE" @@ S_LAYERBITMAP :> <<"0">>)

ConvPlainPage == Block(S_BGLAYER :> <<"5", "3">> @@ S_MAINLAYER :> <<"5", "0">>)

ConvPageBlocks ==
    { ConvPlainPage,
      Block(S_BGLAYER :> <<"5", "1">> @@ S_MAINLAYER :> <<"5", "2">>
            @@ S_LAYER1 :> <<"5", "0">>) }

ConvContainer(page_blocks) ==
    [footer |-> Block([k \in {PageKey(n) : n \in 1..Len(page_blocks)} |->
                          DecimalString(20 + PageNumber(k))]),
     blocks |-> [a \in {20 + n : n \in 1..Len(page_blocks)} |-> page_blocks[a - 20]]
                @@ ConvLayerBlocks]

InvalidValueContainer ==
    [footer |-> Block(S_PAGE1 :> NotANumber),
     blocks |-> (21 :> ConvPlainPage @@ ConvLayerBlocks)]

InvalidKeyContainer ==
    [footer |-> Block(S_PAGE1 :> <<"2", "1">> @@ S_PAGEX :> <<"2", "1">>),
     blocks |-> (21 :> ConvPlainPage @@ ConvLayerBlocks)]

ConvertContainers ==
    {ConvContainer(pbs) : pbs \in SeqsUpTo(ConvPageBlocks, MaxPages)}
    \cup {InvalidValueContainer, InvalidKeyContainer, UnreadableContainer}

ConvInit ==
    /\ file \in ConvertContainers
    /\ notebook = NoNotebook("none")
    /\ parse_pc = "start"
    /\ conv_pc = "open"
    /\ conv_result = "none"
    /\ page_pc = <<>>
    /\ layer_idx = <<>>
    /\ canvas = <<>>
    /\ reads = <<>>
    /\ last_layer = <<>>
    /\ finish_order = <<>>
    /\ page_images = <<>>
    /\ page_chunks = <<>>
    /\ chunk_order = <<>>
    /\ out_file = "absent"
    /\ written = <<>>
    /\ byte_offset = 0
    /\ xref_offsets = <<>>
    /\ next_chunk = 0
    /\ pdf = NoPdf
    /\ RleIdle
    /\ BatchIdle

ConvNext ==
    \/ ConvOpenParse
    \/ \E p \in 1..NumPages : PageOpen(p)
    \/ \E p \in 1..NumPages : RenderLayer(p)
    \/ \E p \in 1..NumPages : PageFinish(p)
    \/ \E p \in 1..NumPages : PageSkip(p)
    \/ CollectPages
    \/ \E n \in 1..NumPages : BuildChunk(n)
    \/ CreateOutput
    \/ WriteProlog
    \/ WriteChunk
    \/ WriteXref

SpecConvert == ConvInit /\ [][ConvNext]_vars

(***************************************************************************)
(* process_directory, lines 507-564.  A job runs convert_note_to_pdf on    *)
(* one container; the reads and writes of the conversion succeed here, so  *)
(* its outcome is what parsing the container gives.                        *)
(***************************************************************************)
ValidContainer == ConvContainer(<<ConvPlainPage>>)

BatchContainers == {ValidContainer, InvalidValueContainer, InvalidKeyContainer}

\* convert_note_to_pdf(&input_path, &output_path) on container f.
ConvertOutcomes(f) ==
    {parse_notebook(f, order).result : order \in IterOrders(f.footer.map)}

\* The parallel iterator over the jobs Vec halves it (at len / 2) at least
\* once when it holds two jobs or more, and each half again or not,
\* depending on the threads that are free; a part that is not halved is
\* consumed by one thread, job after job.
RECURSIVE LeafSplits(_, _, _)
LeafSplits(first, last, must) ==
    LET mid == first + ((last - first + 1) \div 2)
        halved == IF last > first
                  THEN {a \o b : a \in LeafSplits(first, mid - 1, FALSE),
                                 b \in LeafSplits(mid, last, FALSE)}
                  ELSE {}
    IN  IF must /\ last > first THEN halved
        ELSE {<< <<first, last>> >>} \cup halved

BatchInit ==
    /\ jobs \in SeqsUpTo(BatchContainers, MaxJobs)
    /\ leaves = <<>>
    /\ leaf_pos = <<>>
    /\ job_state = [j \in 1..Len(jobs) |-> "todo"]
    /\ outputs = [j \in 1..Len(jobs) |-> "absent"]
    /\ reported = [j \in 1..Len(jobs) |-> FALSE]
    /\ batch_pc = "scan"
    /\ batch_result = "none"
    /\ RleIdle
    /\ ParseIdle
    /\ ConvIdle

\* Lines 537-540: nothing to convert.
BatchEmpty ==
    /\ batch_pc = "scan"
    /\ jobs = <<>>
    /\ batch_pc' = "done"
    /\ batch_result' = "Ok"
    /\ UNCHANGED <<jobs, leaves, leaf_pos, job_state, outputs, reported>>
    /\ UNCHANGED notBatchVars

\* Line 547: jobs.into_par_iter().for_each(..) hands the jobs out.
BatchStart ==
    /\ batch_pc = "scan"
    /\ jobs # <<>>
    /\ \E split \in LeafSplits(1, Len(jobs), TRUE) :
         /\ leaves' = split
         /\ leaf_pos' = [l \in 1..Len(split) |-> split[l][1]]
    /\ batch_pc' = "run"
    /\ UNCHANGED <<jobs, job_state, outputs, reported, batch_result>>
    /\ UNCHANGED notBatchVars

\* The closure of lines 547-558 on the next job of leaf l.  A panic of the
\* conversion unwinds out of the closure and of the leaf's loop: the jobs
\* left in the leaf are dropped.
RunJob(l) ==
    /\ batch_pc = "run"
    /\ leaf_pos[l] <= leaves[l][2]
    /\ LET j == leaf_pos[l]
       IN  \E outcome \in ConvertOutcomes(jobs[j]) :
             /\ job_state' = [job_state EXCEPT ![j] = outcome]
             /\ outputs' = [outputs EXCEPT ![j] =
                               IF outcome = "Ok" THEN "complete" ELSE "absent"]
             /\ reported' = [reported EXCEPT ![j] = (outcome = "Err")]
             /\ leaf_pos' = [leaf_pos EXCEPT ![l] =
                                IF outcome = "Panic" THEN leaves[l][2] + 1 ELSE j + 1]
    /\ UNCHANGED <<jobs, leaves, batch_pc, batch_result>>
    /\ UNCHANGED notBatchVars

\* for_each returns once every leaf is through, or resumes the panic of a
\* closure; lines 560-563 run only if it returns.
BatchFinish ==
    /\ batch_pc = "run"
    /\ \A l \in 1..Len(leaves) : leaf_pos[l] > leaves[l][2]
    /\ batch_pc' = "done"
    /\ batch_result' =
           IF \E j \in 1..Len(jobs) : job_state[j] = "Panic" THEN "Panic" ELSE "Ok"
    /\ UNCHANGED <<jobs, leaves, leaf_pos, job_state, outputs, reported>>
    /\ UNCHANGED notBatchVars

BatchNext ==
    \/ BatchEmpty
    \/ BatchStart
    \/ \E l \in 1..Len(leaves) : RunJob(l)
    \/ BatchFinish

SpecBatch == BatchInit /\ [][BatchNext]_vars

(***************************************************************************)
(* Properties of decode_rle.                                               *)
(***************************************************************************)
\* The indices at which a run of the vector starts.
RECURSIVE RunStartsFrom(_, _)
RunStartsFrom(runs, at) ==
    IF runs = <<>> THEN {}
    ELSE {at} \cup RunStartsFrom(Tail(runs), at + runs[1][2])

\* Two vectors of runs are constant between the run starts of either, so
\* comparing the bytes at these indices compares every byte below n.
ProbeIndices(a, b, n) ==
    {x \in RunStartsFrom(a, 0) \cup RunStartsFrom(b, 0) \cup {VecLen(a)} : x < n}

\* C1: for every compressed buffer (empty, odd-length, truncated or garbage)
\* and every width and height, decode_rle returns Ok with exactly
\* width*height bytes: the bytes emitted are kept up to that length, the
\* excess is dropped, a shortfall is filled with 0x62, and it never
\* returns an error.
C1_OutputLength ==
    /\ rle_result # "Err"
    /\ rle_pc = "done" =>
          /\ rle_result = "Ok"
          /\ VecLen(decompressed) = width * height
          /\ \A idx \in ProbeIndices(decompressed, pre_resize, width * height) :
                ByteAt(decompressed, idx) =
                    IF idx < VecLen(pre_resize) THEN ByteAt(pre_resize, idx) ELSE 98

\* An odd-length buffer decoded to fewer pixels than needed, then padded, and
\* (in other runs) one decoded to more than needed, then truncated.
C1_Witness ==
    /\ rle_pc = "done"
    /\ Len(compressed_data) % 2 = 1
    /\ pre_resize # <<>>
    /\ VecLen(pre_resize) < width * height

\* The combination holds of every pair of byte values, not only the sampled.
AllCodesCombine ==
    \A k \in 0..255 : \A p \in 128..254 :
        /\ CombinedLength(k, p) = 1 + k + ((p - 128 + 1) * 128)
        /\ p = 128 => CombinedLength(k, p) = 129 + k

\* C2: when the holder holds (c, p) and the next pair is (c, k), exactly one
\* run of c of length 1 + k + (((p & 0x7f) + 1) << 7) is emitted and the
\* holder is empty afterwards; (c, 0x80), (c, k) gives one run of 129 + k.
C2_EscapeCombination ==
    /\ AllCodesCombine
    /\ (last_iter.held # <<>> /\ last_iter.pair[1] = last_iter.held[1]) =>
          LET c == last_iter.pair[1]
              k == last_iter.pair[2]
              p == last_iter.held[2]
          IN  /\ last_iter.emitted = << <<c, 1 + k + (((p % 128) + 1) * 128)>> >>
              /\ p = 128 => last_iter.emitted = << <<c, 129 + k>> >>
              /\ holder = <<>>

\* (c, 0x80) was held and (c, 0xFF) followed: the second pair is not taken
\* for a long-run marker.
C2_Witness ==
    /\ last_iter.held # <<>>
    /\ last_iter.held[2] = 128
    /\ last_iter.pair = <<last_iter.held[1], 255>>
    /\ last_iter.emitted = << <<last_iter.held[1], 384>> >>

\* The buffer is a sequence of whole pairs with length codes below 0x80.
IsSimpleRuns(data) ==
    /\ Len(data) % 2 = 0
    /\ \A n \in 1..(Len(data) \div 2) : data[2 * n] < 128

\* The raw buffer such pairs encode: data[2n-1] repeated data[2n] + 1 times.
SimpleRunsRaw(data) ==
    [n \in 1..(Len(data) \div 2) |-> <<data[2 * n - 1], data[2 * n] + 1>>]

\* C3: a pair (c, L) read while the holder is empty emits 16384 pixels of c
\* if L = 0xFF, is stored in the holder without emitting if L has its high
\* bit set, and otherwise emits L + 1 pixels of c; so a buffer of simple
\* runs decodes back to the raw buffer it encodes.
C3_EmptyHolderPair ==
    /\ (last_iter.pair # <<>> /\ last_iter.held = <<>>) =>
          LET c == last_iter.pair[1]
              L == last_iter.pair[2]
          IN  IF L = 255
              THEN last_iter.emitted = << <<c, 16384>> >> /\ holder = <<>>
              ELSE IF L >= 128
              THEN last_iter.emitted = <<>> /\ holder = <<c, L>>
              ELSE last_iter.emitted = << <<c, L + 1>> >> /\ holder = <<>>
    /\ (/\ rle_pc = "done"
        /\ IsSimpleRuns(compressed_data)
        /\ VecLen(SimpleRunsRaw(compressed_data)) = width * height) =>
          \A idx \in 0..(width * height - 1) :
              ByteAt(decompressed, idx) = ByteAt(SimpleRunsRaw(compressed_data), idx)

\* Two simple runs of different colours were decoded back to 1 + 1 pixels.
C3_Witness ==
    /\ rle_pc = "done"
    /\ compressed_data = <<97, 0, 98, 0>>
    /\ width * height = 2
    /\ last_iter.held = <<>>
    /\ last_iter.emitted = << <<98, 1>> >>
    /\ decompressed = << <<97, 1>>, <<98, 1>> >>

\* C11: when the holder holds (c1, p) and the next pair is (c2, k) with
\* c2 # c1, a run of c1 of length ((p & 0x7f) + 1) << 7 is emitted first and
\* the pair (c2, k) is then handled as with an empty holder: k = 0xFF emits
\* 16384 pixels of c2, k with its high bit set emits nothing more and is put
\* into the holder, any other k emits k + 1 pixels of c2.
C11_HolderMismatch ==
    (last_iter.held # <<>> /\ last_iter.pair[1] # last_iter.held[1]) =>
        LET c1 == last_iter.held[1]
            p == last_iter.held[2]
            c2 == last_iter.pair[1]
            k == last_iter.pair[2]
            first == <<c1, ((p % 128) + 1) * 128>>
        IN  IF k = 255
            THEN last_iter.emitted = <<first, <<c2, 16384>> >> /\ holder = <<>>
            ELSE IF k >= 128
            THEN last_iter.emitted = <<first>> /\ holder = <<c2, k>>
            ELSE last_iter.emitted = <<first, <<c2, k + 1>> >> /\ holder = <<>>

\* C12: if the holder still holds (c, p) when the input pairs are consumed,
\* the step after the loop appends one run of c whose length is the lesser
\* of ((p & 0x7f) + 1) << 7 and the pixels still missing to width*height,
\* nothing if the output is already full; it appends no 0x62 padding, which
\* only the final check after it does.
C12_TailFlush ==
    [][(rle_pc = "tail" /\ rle_pc' = "resize" /\ holder # <<>>) =>
          LET c == holder[1]
              held == ((holder[2] % 128) + 1) * 128
              have == VecLen(decompressed)
              missing == IF width * height > have THEN width * height - have ELSE 0
              n == IF held < missing THEN held ELSE missing
          IN  /\ decompressed' =
                    IF n = 0 THEN decompressed ELSE Append(decompressed, <<c, n>>)
              /\ VecLen(decompressed') = have + n
              /\ VecLen(decompressed') <= (IF width * height > have
                                           THEN width * height ELSE have)]_vars

\* (0x61, 0x00), (0x62, 0x80) was decoded for 6 pixels: the held run of 128
\* was cut to the 5 pixels still missing.
C12_Witness ==
    /\ rle_pc = "resize"
    /\ compressed_data = <<97, 0, 98, 128>>
    /\ width * height = 6
    /\ holder = <<98, 128>>
    /\ decompressed = << <<97, 1>>, <<98, 5>> >>

(***************************************************************************)
(* Properties of parse_notebook.                                           *)
(***************************************************************************)
\* The key is PAGE<n>: "PAGE" and then the digits of an unsigned integer.
IsPageN(k) ==
    /\ StartsWith(k, S_PAGE)
    /\ Len(k) > Len(S_PAGE)
    /\ \A n \in (Len(S_PAGE) + 1)..Len(k) : DigitValue(k[n]) >= 0

\* The address sequence the PAGE<n> entries of a footer stand for: the
\* entry with r smaller page numbers is at position r + 1.
IsPageSequenceOf(addrs, footer_map) ==
    LET ks == {k \in DOMAIN footer_map : IsPageN(k)}
    IN  /\ Len(addrs) = Cardinality(ks)
        /\ \A k \in ks :
              LET rank == Cardinality({j \in ks : PageNumber(j) < PageNumber(k)})
              IN  /\ ParsesAsU64(footer_map[k])
                  /\ addrs[rank + 1] = ParseU64(footer_map[k])

PageAddrs(nb) == [n \in 1..Len(nb.pages) |-> nb.pages[n].addr]

\* C4: the page sequence of a parsed notebook is exactly the addresses under
\* the footer keys PAGE<n>, in ascending order of the integer n; a footer
\* key that is not of that form contributes no page.
C4_PageSequence ==
    (parse_pc = "done" /\ notebook.result = "Ok") =>
        IsPageSequenceOf(PageAddrs(notebook), file.footer.map)

\* A required numeric field of the container does not parse: the value of a
\* PAGE<n> footer entry, or the value a page block holds under a key of its
\* layer order.
RequiredFieldInvalid(f) ==
    /\ f.footer.ok
    /\ \E k \in DOMAIN f.footer.map :
          /\ IsPageN(k)
          /\ \/ ~ParsesAsU64(f.footer.map[k])
             \/ LET page == parse_metadata_block(f, ParseU64(f.footer.map[k]))
                    order == LayerOrder(page.map)
                IN  /\ page.ok
                    /\ \E n \in 1..Len(order) :
                          /\ order[n] \in DOMAIN page.map
                          /\ ~ParsesAsU64(page.map[order[n]])

\* C9: parse_notebook fails with an error value, and returns no notebook,
\* whenever a required numeric address field does not parse as an unsigned
\* integer.
C9_InvalidAddressIsError ==
    (parse_pc = "done" /\ RequiredFieldInvalid(file)) =>
        (notebook.result = "Err" /\ notebook.pages = <<>>)

(***************************************************************************)
(* Properties of convert_note_to_pdf.                                      *)
(***************************************************************************)
\* The layers of a page that are rendered: a bitmap is present and the
\* protocol is one of the two the compositor knows.
IsRendered(layer) ==
    layer.bitmap_address # 0 /\ layer.protocol \in {"RATTA_RLE", "PNG"}

RenderedLayers(page) == SelectSeq(page.layers, IsRendered)

\* The objects written so far that start with "<id> 0 obj".
ObjectSegments(id) ==
    {s \in 1..Len(written) : written[s].kind = "object" /\ written[s].id = id}

\* C5: whatever order the page closures and the chunk closures complete in,
\* the i-th canvas, the i-th chunk and the i-th page of the document (the
\* i-th entry of /Kids, objects 3i+3..3i+5, i counted from 0) come from the
\* i-th page of the parsed notebook.
C5_PageOrderPreserved ==
    /\ \A n \in 1..Len(page_images) :
         /\ page_images[n].src = n
         /\ page_images[n].applied = RenderedLayers(Pages[n])
    /\ \A n \in ChunksBuilt :
         /\ page_chunks[n].page_object.src = n
         /\ page_chunks[n].contents_object.src = n
         /\ page_chunks[n].image_object.src = n
    /\ conv_result = "Ok" =>
         /\ Len(pdf.kids) = NumPages
         /\ \A n \in 1..NumPages :
              /\ pdf.kids[n] = 3 * (n - 1) + 3
              /\ \A id \in (3 * (n - 1) + 3)..(3 * (n - 1) + 5) :
                   /\ ObjectSegments(id) # {}
                   /\ \A s \in ObjectSegments(id) : written[s].src = n

\* The second page was rendered and turned into a chunk before the first,
\* and the document was written.
C5_Witness ==
    /\ conv_result = "Ok"
    /\ finish_order = <<2, 1>>
    /\ chunk_order = <<2, 1>>

RECURSIVE BytesBefore(_)
BytesBefore(s) == IF s <= 1 THEN 0 ELSE BytesBefore(s - 1) + written[s - 1].len

\* C6: in the written document of N pages, for every object id k in
\* 1..3N+2 the k-th in-use cross-reference record is the ten-digit number of
\* bytes written before object k; the recorded offsets increase strictly
\* with k; the table follows all object bytes, startxref is their total
\* length, and /Size is 3N+3.
C6_XrefOffsets ==
    conv_result = "Ok" =>
        /\ Len(pdf.xref) = 3 * NumPages + 2
        /\ pdf.size = 3 * NumPages + 3
        /\ \A k \in 1..(3 * NumPages + 2) :
             /\ Cardinality(ObjectSegments(k)) = 1
             /\ Len(pdf.xref[k]) = 10
             /\ ParsesAsU64(pdf.xref[k])
             /\ \A s \in ObjectSegments(k) : ParseU64(pdf.xref[k]) = BytesBefore(s)
             /\ k > 1 => ParseU64(pdf.xref[k - 1]) < ParseU64(pdf.xref[k])
        /\ \E x \in 1..Len(written) :
             /\ written[x].kind = "xref"
             /\ \A s \in 1..Len(written) :
                  written[s].kind \in {"header", "object"} <=> s < x
             /\ pdf.startxref = BytesBefore(x)

\* A document of two pages whose image streams differ in length.
C6_Witness ==
    /\ conv_result = "Ok"
    /\ NumPages = 2
    /\ page_chunks[1].image_object.len > page_chunks[2].image_object.len

\* C8: whenever convert_note_to_pdf fails, at whatever step, no partial or
\* corrupt output document exists at the output path afterwards.
C8_NoPartialOutput ==
    (conv_pc = "done" /\ conv_result # "Ok") => out_file = "absent"

\* C10: a layer whose bitmap_address is 0, or whose protocol is neither
\* RATTA_RLE nor PNG, is passed over without a read of the file, with the
\* canvas as it was and no error, and the later layers of the page are
\* still rendered, in page order.
C10_SkippedLayer ==
    \A p \in 1..Len(page_pc) :
        /\ last_layer[p].idx > 0 =>
             LET layer == Pages[p].layers[last_layer[p].idx]
             IN  (layer.bitmap_address = 0 \/ layer.protocol \notin {"RATTA_RLE", "PNG"}) =>
                     /\ canvas[p] = last_layer[p].canvas_before
                     /\ reads[p] = last_layer[p].reads_before
                     /\ page_pc[p] \in {"layers", "Ok"}
                     /\ layer_idx[p] = last_layer[p].idx + 1
        /\ page_pc[p] = "Ok" =>
             /\ canvas[p].applied = RenderedLayers(Pages[p])
             /\ reads[p] = Len(RenderedLayers(Pages[p]))

\* A page whose second layer has an unknown protocol was rendered from its
\* first and third layers.
C10_Witness ==
    \E p \in 1..Len(page_pc) :
        /\ page_pc[p] = "Ok"
        /\ Len(Pages[p].layers) = 3
        /\ Pages[p].layers[2].protocol = "SPECIAL"
        /\ Len(canvas[p].applied) = 2
        /\ canvas[p].applied[2].key = Pages[p].layers[3].key

(***************************************************************************)
(* Properties of process_directory.                                        *)
(***************************************************************************)
\* The container converts when its reads succeed.
IsValid(f) == ConvertOutcomes(f) = {"Ok"}

\* C7: with any number of valid and one invalid .note file, whatever the
\* failure of the invalid one and whatever the order of processing, every
\* run ends without aborting, with the document of every valid file
\* produced and exactly one failure reported.
C7_BatchContinues ==
    (/\ batch_pc = "done"
     /\ Cardinality({j \in 1..Len(jobs) : ~IsValid(jobs[j])}) = 1) =>
        /\ batch_result = "Ok"
        /\ \A j \in 1..Len(jobs) : IsValid(jobs[j]) => outputs[j] = "complete"
        /\ Cardinality({j \in 1..Len(jobs) : reported[j]}) = 1

====
